---- MODULE Spec2Model ----
(***************************************************************************)
(* Voice conversation loop of Solace: the VoiceControls component          *)
(* (frontend/src/components/SessionActions.js) and the speech pipeline of  *)
(* the App component that consumes its transcriptions.                     *)
(*                                                                         *)
(* VoiceControls is a React function component.  Every handler is a        *)
(* closure over the state values of the render that created it, so a       *)
(* callback registered during one render (recorder.onstop, the auto-listen *)
(* timeout) keeps reading that render's isRecording / isProcessing /       *)
(* autoMode, never the current ones.  Refs (xxxRef.current) are shared     *)
(* mutable cells and are always read at call time.  A closure is modelled  *)
(* as the record `cap` of the state values it captured.                    *)
(*                                                                         *)
(* Time is counted in whole seconds: SecondPasses fires every live 1 Hz    *)
(* duration timer once and brings the pending auto-listen timeout one      *)
(* second closer.  Network round trips and audio playback take an          *)
(* arbitrary time.                                                         *)
(*                                                                         *)
(* Display-only state (voiceError, audioLevel, recordingQuality,           *)
(* showControls) is read by no handler and is left out.  What a step hands *)
(* to the outside (the upload, the sentence given to onVoiceMessage, the   *)
(* stream a recorder is built on, the message of a failed device opening)  *)
(* is recorded in `out` for that step only.                                *)
(***************************************************************************)
EXTENDS Integers, Sequences, FiniteSets, TLC

\* ---- program constants
MaxRecordingSeconds == 60
AutoListenDelay == 3
MinPayloadBytes == 100
\* The analyser's average byte is at most 255; normalizedLevel is
\* average / 128, counted here in hundredths: 0 .. 199 before the cap at 1.
MaxRawLevel == 199

\* ---- bounds of the model
MaxRecorders == 2
MaxChunks == 2
MaxJobs == 2
MaxAutoTimers == 2
ClipSeconds == 3
TurnSeconds == 1
ChunkBytes == 120
ChunkSizes == {40, ChunkBytes}

VARIABLES
    \* VoiceControls state (useState)
    isRecording, isProcessing, autoMode, recordingTime,
    \* VoiceControls refs (useRef)
    streamRef, mediaRecorderRef, audioChunksRef, recordingTimerRef,
    autoListenTimeoutRef, audioContextRef, animationFrameRef,
    \* browser objects created by VoiceControls
    recorders,       \* MediaRecorder objects and the interval timer each start created
    autoTimers,      \* pending setTimeout(…, 3000) callbacks
    initPc,          \* progress of initializeMediaRecorder
    hasConsumer,     \* whether the parent (App) passed the props
                     \* onVoiceMessage and onToggleListening
    supported,       \* the types MediaRecorder.isTypeSupported accepts
    mounted,         \* the component is mounted (cleanup has not run)
    micLevel,        \* what the analyser reads: average / 128 in hundredths
    out,             \* what the last step handed to the outside
    \* App state and the speech pipeline
    isLoading, jobs, welcomePending, isListening,
    \* history (not program state)
    sinceReplyEnd, manualSince, offSince

vcVars == <<isRecording, isProcessing, autoMode, recordingTime,
            streamRef, mediaRecorderRef, audioChunksRef, recordingTimerRef,
            autoListenTimeoutRef, audioContextRef, animationFrameRef,
            recorders, autoTimers, initPc, hasConsumer,
            supported, mounted, micLevel, out>>
appVars == <<isLoading, jobs, welcomePending, isListening>>
histVars == <<sinceReplyEnd, manualSince, offSince>>
vars == <<vcVars, appVars, histVars>>

RecorderIds == 1..MaxRecorders
JobIds == 1..MaxJobs
TimerIds == 1..MaxAutoTimers

\* The values a render's closures captured.
NoCap == [autoMode |-> FALSE, isRecording |-> FALSE, isProcessing |-> FALSE,
          isLoading |-> FALSE, isListening |-> FALSE]

\* A MediaRecorder slot: phase "inactive" with no timer is an unused slot.
\*   recording    state === 'recording'
\*   stopQueued   stop() was called (state inactive), the stop event is queued
\*   faulted      the recorder failed: the browser stopped it and queued the
\*                stop event
\*   transcribing onstop ran processRecording, which awaits the transcription
\* mimeType is the type startRecording negotiated ("" : none of the probed
\* types is supported, the recorder encodes in the browser's own default).
\* requests (history) counts the transcription requests of the recording.
NoRecorder == [phase |-> "inactive", timer |-> FALSE, cap |-> NoCap, mimeType |-> "",
               requests |-> 0]

NoTimer == [left |-> -1, cap |-> NoCap]

\* A reply on its way to the loudspeaker.  `reply` marks the job that answers
\* the utterance which scheduled the pending auto-listen timeout (history).
\*   chat -> delay -> synth -> playing -> settled (result: how the promise of
\*   synthesizeAndPlayVoice settled)
\* The delay before a voice reply is spoken is 800 ms: a job in "delay" is
\* "delayDue" after the next second boundary and runs before the one after.
NoJob == [stage |-> "idle", reply |-> FALSE, result |-> "none"]

\* The size of the blob made of the chunks s.  A chunk is the blob of one
\* dataavailable event: the recorder that delivered it and its size.
RECURSIVE SumSeq(_)
SumSeq(s) == IF s = <<>> THEN 0 ELSE Head(s).size + SumSeq(Tail(s))

Min(S) == CHOOSE x \in S : \A y \in S : x <= y

\* The sentences processRecording hands to onVoiceMessage in place of a text.
NoSpeechSentence ==
    "I'm listening but couldn't hear you clearly. Could you please repeat that?"
TroubleSentence ==
    "I'm having trouble hearing you. Could you please try again?"
RecognizedText == "data.transcription"

\* The types startRecording probes, in its order of preference.
formats == <<"audio/wav", "audio/webm;codecs=opus", "audio/webm", "audio/mp3",
             "audio/ogg;codecs=opus", "audio/ogg">>

\* What isTypeSupported accepts in the browsers the model runs in: Chromium,
\* Firefox, a browser that records none of the probed types (Safari: mp4
\* only), a browser with a wav recorder.
Chromium == {"audio/webm;codecs=opus", "audio/webm"}
Browsers == {Chromium,
             {"audio/webm;codecs=opus", "audio/webm", "audio/ogg;codecs=opus",
              "audio/ogg"},
             {},
             {"audio/wav", "audio/webm;codecs=opus", "audio/webm"}}

\* What one step hands to the outside.
\*   by         the recorder whose processRecording ran (0: none did)
\*   bytes      the size of the blob it assembled
\*   upload     the blob type of the payload sent to /api/voice/transcribe
\*   response   how the transcription request that settled in this step ended
\*   afterFault the stop event handled in this step followed a recorder error
\*   delivered  the sentence given to onVoiceMessage
\*   usedStream the state of the stream a MediaRecorder was constructed on
\*   payload    the chunks the blob was assembled from
\*   requests   the transcription requests of the recording that completed
\*   replaced   scheduleAutoListening cleared a pending timeout
\*   armed      handleVoiceRecord took its start branch
\*   error      the message given to setVoiceError by initializeMediaRecorder
\*   chat       what App did with the sentence after appending it to the
\*              conversation: "sent" to the chat backend or "dropped"
\*   deliveries the number of calls of onVoiceMessage
\*   sampled    updateLevel ran; level and quality are what it displayed
\*              (setAudioLevel in hundredths, setRecordingQuality)
\*   raised     an error escaped the handler
NoOut == [by |-> 0, bytes |-> 0, upload |-> "none", response |-> "none",
          afterFault |-> FALSE, delivered |-> "none", usedStream |-> "none",
          payload |-> <<>>, requests |-> 0, replaced |-> FALSE,
          armed |-> FALSE, error |-> "none", chat |-> "none", deliveries |-> 0,
          sampled |-> FALSE, level |-> 0, quality |-> "none", raised |-> FALSE]

StartFaults == {"none", "ctor", "start"}
\* The analyser's reading while the user speaks at an ordinary level.
SpeechLevel == 50
Reasons == {"NotAllowedError", "NotFoundError"}
TranscribeOutcomes == {"text", "empty", "httpError", "networkError"}
SynthOutcomes == {"audio", "nonOk", "noAudio", "throw", "undecodable", "playRejected"}

\* ---- the state as one record, so that handlers compose like the calls they make
Cur == [isRecording |-> isRecording, isProcessing |-> isProcessing,
        autoMode |-> autoMode, recordingTime |-> recordingTime,
        streamRef |-> streamRef,
        mediaRecorderRef |-> mediaRecorderRef, audioChunksRef |-> audioChunksRef,
        recordingTimerRef |-> recordingTimerRef,
        autoListenTimeoutRef |-> autoListenTimeoutRef,
        audioContextRef |-> audioContextRef,
        animationFrameRef |-> animationFrameRef, micLevel |-> micLevel,
        recorders |-> recorders, autoTimers |-> autoTimers, initPc |-> initPc,
        hasConsumer |-> hasConsumer, supported |-> supported,
        mounted |-> mounted, out |-> NoOut,
        isLoading |-> isLoading, jobs |-> jobs, welcomePending |-> welcomePending,
        isListening |-> isListening,
        sinceReplyEnd |-> sinceReplyEnd, manualSince |-> manualSince,
        offSince |-> offSince,
        newJob |-> 0, started |-> FALSE, scheduled |-> FALSE, capped |-> FALSE,
        blocked |-> FALSE]

Commit(s) ==
    /\ ~s.blocked
    /\ isRecording' = s.isRecording
    /\ isProcessing' = s.isProcessing
    /\ autoMode' = s.autoMode
    /\ recordingTime' = s.recordingTime
    /\ streamRef' = s.streamRef
    /\ mediaRecorderRef' = s.mediaRecorderRef
    /\ audioChunksRef' = s.audioChunksRef
    /\ recordingTimerRef' = s.recordingTimerRef
    /\ autoListenTimeoutRef' = s.autoListenTimeoutRef
    /\ audioContextRef' = s.audioContextRef
    /\ animationFrameRef' = s.animationFrameRef
    /\ micLevel' = s.micLevel
    /\ recorders' = s.recorders
    /\ autoTimers' = s.autoTimers
    /\ initPc' = s.initPc
    /\ hasConsumer' = s.hasConsumer
    /\ supported' = s.supported
    /\ mounted' = s.mounted
    /\ out' = s.out
    /\ isLoading' = s.isLoading
    /\ jobs' = s.jobs
    /\ welcomePending' = s.welcomePending
    /\ isListening' = s.isListening
    /\ sinceReplyEnd' = s.sinceReplyEnd
    /\ manualSince' = s.manualSince
    /\ offSince' = s.offSince

\* The closures of the render that shows state s.
Render(s) == [autoMode |-> s.autoMode, isRecording |-> s.isRecording,
              isProcessing |-> s.isProcessing, isLoading |-> s.isLoading,
              isListening |-> s.isListening]

\* The state after VoiceControls mounted in a session (sessionId set).  The
\* parent passes onVoiceMessage or not: the component guards every call with
\* `if (onVoiceMessage)`.
Mounted(consumer) ==
    /\ hasConsumer = consumer
    /\ mounted = TRUE
    /\ out = NoOut
    /\ isRecording = FALSE
    /\ isProcessing = FALSE
    /\ autoMode = FALSE
    /\ recordingTime = 0
    /\ streamRef = "null"
    /\ mediaRecorderRef = 0
    /\ audioChunksRef = <<>>
    /\ recordingTimerRef = 0
    /\ autoListenTimeoutRef = 0
    /\ audioContextRef = "null"
    /\ animationFrameRef = FALSE
    /\ recorders = [k \in RecorderIds |-> NoRecorder]
    /\ autoTimers = [t \in TimerIds |-> NoTimer]
    /\ initPc = "ideal"
    /\ isLoading = FALSE
    /\ jobs = [j \in JobIds |-> NoJob]
    /\ welcomePending = TRUE
    /\ isListening = FALSE
    /\ sinceReplyEnd = -1
    /\ manualSince = FALSE
    /\ offSince = FALSE

\* VoiceControls as App renders it: onVoiceMessage={handleVoiceMessage}.
Init ==
    /\ Mounted(TRUE)
    /\ supported = Chromium
    /\ micLevel = SpeechLevel

\* VoiceControls on its own.  handleVoiceMessage writes App state only
\* (isLoading, the speech pipeline), which no VoiceControls handler reads, so
\* the capture state evolves exactly as under App.
InitAlone ==
    /\ Mounted(FALSE)
    /\ supported = Chromium
    /\ micLevel = SpeechLevel

\* ------------------------------------------------------------------------
\* VoiceControls handlers.  Each takes the state and the closure `cap` of the
\* render whose copy of the handler is running, and returns the new state.
\* ------------------------------------------------------------------------

FreeRecorders(s) == {k \in RecorderIds : s.recorders[k] = NoRecorder}
FreeTimers(tm) == {t \in TimerIds : tm[t] = NoTimer}
FreeJobs(s) == {j \in JobIds : s.jobs[j] = NoJob}

\* stopRecording: stops the recorder mediaRecorderRef points to, if it is
\* recording, and clears the interval recordingTimerRef points to.  It reads
\* refs only.  A cleared interval id behaves like null in every later use, so
\* the ref is reset to 0 with the interval.
stopRecording(s) ==
    LET m == s.mediaRecorderRef
        s1 == IF m # 0 /\ s.recorders[m].phase = "recording"
              THEN [s EXCEPT !.recorders[m].phase = "stopQueued"]
              ELSE s
        t == s1.recordingTimerRef
        s2 == IF t # 0
              THEN [s1 EXCEPT !.recorders[t].timer = FALSE, !.recordingTimerRef = 0]
              ELSE s1
    IN  \* cancelAnimationFrame of the pending level frame, if any
        [s2 EXCEPT !.animationFrameRef = FALSE]

\* The loop over formats without its break: the last supported type wins.
RECURSIVE negotiateLast(_, _)
negotiateLast(types, i) ==
    IF i > Len(formats) THEN ""
    ELSE LET later == negotiateLast(types, i + 1)
         IN  IF later # "" THEN later
             ELSE IF formats[i] \in types THEN formats[i]
             ELSE ""

\* The loop over formats in startRecording: the first supported type from
\* position i on, "" if there is none.
RECURSIVE negotiate(_, _)
negotiate(types, i) ==
    IF i > Len(formats) THEN ""
    ELSE IF formats[i] \in types THEN formats[i]
    ELSE negotiate(types, i + 1)

\* The type processRecording gives the blob it uploads.
blobType(types) ==
    IF "audio/wav" \in types THEN "audio/wav"
    ELSE IF "audio/mp3" \in types THEN "audio/mp3"
    ELSE "audio/webm"

\* Math.min(average / 128, 1), in hundredths.
normalizedLevel(raw) == IF raw > 100 THEN 100 ELSE raw

\* The label with the thresholds included in the higher class.
qualityInclusive(a) ==
    IF a >= 60 THEN "excellent"
    ELSE IF a >= 30 THEN "good"
    ELSE IF a >= 10 THEN "fair"
    ELSE "poor"

\* The label updateLevel gives the normalized level a (in hundredths).
quality(a) ==
    IF a > 60 THEN "excellent"
    ELSE IF a > 30 THEN "good"
    ELSE IF a > 10 THEN "fair"
    ELSE "poor"

\* updateLevel with its next frame requested whatever isRecording is.
updateLevelLooping(s, cap) ==
    [s EXCEPT !.out.sampled = TRUE,
              !.out.level = normalizedLevel(s.micLevel),
              !.out.quality = quality(normalizedLevel(s.micLevel)),
              !.animationFrameRef = TRUE]

\* updateLevel of the render `cap`: one sample is displayed, and the next
\* frame is requested if the isRecording of that render is true.
updateLevel(s, cap) ==
    [s EXCEPT !.out.sampled = TRUE,
              !.out.level = normalizedLevel(s.micLevel),
              !.out.quality = quality(normalizedLevel(s.micLevel)),
              !.animationFrameRef = IF cap.isRecording THEN TRUE ELSE @]

\* monitorAudioLevel of the render `cap`: nothing without an analyser.
monitorAudioLevel(s, cap) ==
    IF s.audioContextRef = "null" THEN s ELSE updateLevel(s, cap)

\* startRecording: fault is where the try block throws, if anywhere:
\* "ctor" in new MediaRecorder(...), "start" in recorder.start(250).
startRecording(s, cap, fault) ==
    IF s.streamRef = "null"
    THEN [s EXCEPT !.started = FALSE]
    ELSE IF FreeRecorders(s) = {}
    THEN [s EXCEPT !.blocked = TRUE]
    ELSE
      LET s1 == [s EXCEPT !.audioChunksRef = <<>>,
                          !.out.usedStream = s.streamRef]
          k == Min(FreeRecorders(s))
      IN  CASE fault = "ctor" ->
                 [s1 EXCEPT !.started = FALSE]
            [] fault = "start" ->
                 [s1 EXCEPT !.mediaRecorderRef = k, !.started = FALSE]
            [] OTHER ->
                 [monitorAudioLevel(s1, cap)
                     EXCEPT !.recorders[k] =
                                [phase |-> "recording", timer |-> TRUE, cap |-> cap,
                                 mimeType |-> negotiate(s.supported, 1),
                                 requests |-> 0],
                            !.mediaRecorderRef = k,
                            !.recordingTimerRef = k,
                            !.started = TRUE]

\* ondataavailable of recorder k: a non-empty blob is pushed onto the shared
\* audioChunksRef.
ondataavailable(s, k, size) ==
    IF size > 0
    THEN [s EXCEPT !.audioChunksRef = Append(@, [by |-> k, size |-> size])]
    ELSE s

\* if (onToggleListening) { onToggleListening() }: App passes
\* () => setIsListening(!isListening), a closure of the App render that
\* rendered the VoiceControls render `cap`.
onToggleListening(s, cap) ==
    IF s.hasConsumer THEN [s EXCEPT !.isListening = ~cap.isListening] ELSE s

\* handleVoiceRecord of the render `cap` (sessionId is set for the whole model).
handleVoiceRecord(s, cap, fault) ==
    onToggleListening(
        IF cap.isRecording
        THEN stopRecording([s EXCEPT !.isRecording = FALSE])
        ELSE LET s1 == startRecording([s EXCEPT !.isRecording = TRUE,
                                                !.recordingTime = 0,
                                                !.out.armed = TRUE], cap, fault)
             IN  IF s1.started THEN s1 ELSE [s1 EXCEPT !.isRecording = FALSE],
        cap)

\* scheduleAutoListening without its clearTimeout of the pending timeout.
scheduleWithoutClear(s, cap) ==
    IF ~cap.autoMode THEN s
    ELSE IF FreeTimers(s.autoTimers) = {} THEN [s EXCEPT !.blocked = TRUE]
    ELSE
      LET t == Min(FreeTimers(s.autoTimers))
      IN  [s EXCEPT !.autoTimers[t] = [left |-> AutoListenDelay, cap |-> cap],
                    !.autoListenTimeoutRef = t,
                    !.scheduled = TRUE,
                    !.out.replaced = (s.autoListenTimeoutRef # 0)]

\* scheduleAutoListening of the render `cap`.
scheduleAutoListening(s, cap) ==
    IF ~cap.autoMode THEN s
    ELSE
      LET r == s.autoListenTimeoutRef
          cleared == IF r # 0 THEN [s.autoTimers EXCEPT ![r] = NoTimer]
                     ELSE s.autoTimers
      IN  IF FreeTimers(cleared) = {} THEN [s EXCEPT !.blocked = TRUE]
          ELSE
            LET t == Min(FreeTimers(cleared))
            IN  [s EXCEPT !.autoTimers =
                              [cleared EXCEPT ![t] = [left |-> AutoListenDelay,
                                                      cap |-> cap]],
                          !.autoListenTimeoutRef = t,
                          !.scheduled = TRUE,
                          !.out.replaced = (r # 0),
                          \* history: the reply to wait for is the job this
                          \* completion has just started, if any
                          !.jobs = [j \in JobIds |->
                                      [s.jobs[j] EXCEPT !.reply = (j = s.newJob)]],
                          !.sinceReplyEnd = -1,
                          !.manualSince = FALSE,
                          !.offSince = FALSE]

\* App's handleVoiceMessage, which calls sendVoiceMessage; both belong to the
\* App render that rendered the VoiceControls render `cap`.  The text is never
\* blank here (a recognized text or a fallback sentence).
handleVoiceMessage(s, cap) ==
    IF cap.isLoading THEN [s EXCEPT !.out.chat = "dropped"]
    ELSE IF FreeJobs(s) = {} THEN [s EXCEPT !.blocked = TRUE]
    ELSE LET j == Min(FreeJobs(s))
         IN  [s EXCEPT !.isLoading = TRUE,
                       !.jobs[j] = [NoJob EXCEPT !.stage = "chat"],
                       !.newJob = j,
                       !.out.chat = "sent"]

\* if (onVoiceMessage) { onVoiceMessage(sentence) }
onVoiceMessage(s, cap, sentence) ==
    IF s.hasConsumer
    THEN handleVoiceMessage([s EXCEPT !.out.delivered = sentence,
                                      !.out.deliveries = @ + 1], cap)
    ELSE s

\* if (audioBlob.size < 100) throw
tooShortLax(bytes) == bytes < MinPayloadBytes \div 10

tooShort(bytes) == bytes < MinPayloadBytes

\* The sentence processRecording hands over once the request settled: the
\* recognized text, the no-speech fallback for an empty transcription, or,
\* from the catch block, the trouble-hearing fallback.
sentenceForAnyFailure(outcome) ==
    IF outcome = "text" THEN RecognizedText ELSE TroubleSentence

sentenceForOneFallback(outcome) ==
    IF outcome = "text" THEN RecognizedText ELSE NoSpeechSentence

sentenceFor(outcome) ==
    CASE outcome = "text" -> RecognizedText
      [] outcome = "empty" -> NoSpeechSentence
      [] OTHER -> TroubleSentence

\* The finally block with a reset of autoMode added.
processFinallyAutoOff(s, cap) ==
    scheduleAutoListening([s EXCEPT !.isProcessing = FALSE,
                                    !.recordingTime = 0,
                                    !.audioChunksRef = <<>>,
                                    !.autoMode = FALSE], cap)

\* The finally block of processRecording.
processFinally(s, cap) ==
    scheduleAutoListening([s EXCEPT !.isProcessing = FALSE,
                                    !.recordingTime = 0,
                                    !.audioChunksRef = <<>>], cap)

\* processRecording up to its first suspension (the transcription fetch), run
\* by the stop event of recorder k with the closure recorder k was started in.
processRecording(s, k) ==
    LET cap == s.recorders[k].cap
        bytes == SumSeq(s.audioChunksRef)
        s0 == [s EXCEPT !.out.by = k, !.out.bytes = bytes,
                        !.out.afterFault = (s.recorders[k].phase = "faulted"),
                        !.out.payload = s.audioChunksRef]
        done == [s0 EXCEPT !.recorders[k].phase = "inactive",
                           !.recorders[k].cap = NoCap,
                           !.recorders[k].mimeType = ""]
    IN  IF s.audioChunksRef = <<>>
        THEN scheduleAutoListening([done EXCEPT !.isProcessing = FALSE], cap)
        ELSE IF tooShort(bytes)
        THEN processFinally(
                 onVoiceMessage([done EXCEPT !.isProcessing = TRUE], cap,
                                TroubleSentence),
                 cap)
        ELSE [s0 EXCEPT !.isProcessing = TRUE,
                        !.recorders[k].phase = "transcribing",
                        !.recorders[k].requests = @ + 1,
                        !.out.upload = blobType(s.supported)]

\* processRecording with one retry of a request that failed.
processResponseRetry(s, k, outcome) ==
    LET cap == s.recorders[k].cap
        done == [s EXCEPT !.recorders[k].phase = "inactive",
                          !.recorders[k].cap = NoCap,
                          !.recorders[k].mimeType = "",
                          !.recorders[k].requests = 0,
                          !.out.requests = s.recorders[k].requests,
                          !.out.response = outcome]
    IN  IF outcome \in {"httpError", "networkError"} /\ s.recorders[k].requests < 2
        THEN [s EXCEPT !.recorders[k].requests = @ + 1,
                       !.out.upload = blobType(s.supported)]
        ELSE processFinally(onVoiceMessage(done, cap, sentenceFor(outcome)), cap)

\* processRecording handing over twice: the sentence of the try block, then
\* the fallback of the catch block.
processResponseTwice(s, k, outcome) ==
    LET cap == s.recorders[k].cap
        done == [s EXCEPT !.recorders[k].phase = "inactive",
                          !.recorders[k].cap = NoCap,
                          !.recorders[k].mimeType = "",
                          !.recorders[k].requests = 0,
                          !.out.requests = s.recorders[k].requests,
                          !.out.response = outcome]
    IN  processFinally(
            onVoiceMessage(onVoiceMessage(done, cap, sentenceFor(outcome)),
                           cap, TroubleSentence),
            cap)

\* processRecording after the transcription request settled.  Every branch
\* hands one sentence to onVoiceMessage: the recognized text ("text"), the
\* no-speech fallback ("empty"), or, from the catch block, the trouble-hearing
\* fallback ("httpError", "networkError").
processResponse(s, k, outcome) ==
    LET cap == s.recorders[k].cap
        done == [s EXCEPT !.recorders[k].phase = "inactive",
                          !.recorders[k].cap = NoCap,
                          !.recorders[k].mimeType = "",
                          !.recorders[k].requests = 0,
                          !.out.requests = s.recorders[k].requests,
                          !.out.response = outcome]
    IN  processFinally(onVoiceMessage(done, cap, sentenceFor(outcome)), cap)

\* The updater with the cap test off by one (prev > 60).
durationTickLate(s) ==
    IF s.recordingTime > MaxRecordingSeconds
    THEN [stopRecording(s) EXCEPT !.recordingTime = MaxRecordingSeconds,
                                  !.capped = TRUE]
    ELSE [s EXCEPT !.recordingTime = @ + 1]

\* One firing of a 1 Hz duration timer (the setRecordingTime updater).
durationTick(s) ==
    IF s.recordingTime >= MaxRecordingSeconds
    THEN [stopRecording(s) EXCEPT !.recordingTime = MaxRecordingSeconds,
                                  !.capped = TRUE]
    ELSE [s EXCEPT !.recordingTime = @ + 1]

\* All duration timers that are live fire once; one cleared by an earlier
\* firing of the same second no longer fires.
RECURSIVE durationTicks(_, _)
durationTicks(s, ks) ==
    IF ks = {} THEN s
    ELSE LET k == Min(ks)
         IN  durationTicks(IF s.recorders[k].timer THEN durationTick(s) ELSE s,
                           ks \ {k})

\* ------------------------------------------------------------------------
\* VoiceControls actions
\* ------------------------------------------------------------------------

\* initializeMediaRecorder: getUserMedia with the ideal constraints, then with
\* { audio: true }; the first grant sets streamRef, and the AudioContext and
\* its analyser are created.
InitGranted ==
    /\ initPc \in {"ideal", "basic"}
    /\ Commit([Cur EXCEPT !.streamRef = "open", !.initPc = "done",
                          !.audioContextRef = "running"])

\* The same with the AudioContext constructor throwing: the inner catch block
\* logs a warning, there is no analyser.
InitGrantedNoAnalyser ==
    /\ initPc \in {"ideal", "basic"}
    /\ Commit([Cur EXCEPT !.streamRef = "open", !.initPc = "done"])

\* The first rejection taken for the last: no second request, the outer
\* catch block runs at once.
InitIdealRejectedNoRetry ==
    /\ initPc = "ideal"
    /\ Commit([Cur EXCEPT !.initPc = "done", !.out.error = "OverconstrainedError"])

\* The request with the ideal constraints is rejected: the inner catch block
\* logs the error and sends the request with { audio: true }.
InitIdealRejected ==
    /\ initPc = "ideal"
    /\ Commit([Cur EXCEPT !.initPc = "basic"])

\* The request with { audio: true } is rejected with err.message = reason:
\* the outer catch block shows "Microphone access denied: <reason>. ...".
InitBasicRejected(reason) ==
    /\ initPc = "basic"
    /\ Commit([Cur EXCEPT !.initPc = "done", !.out.error = reason])

\* The user clicks the record button of the current render (the button is
\* disabled while isProcessing or without a stream).
ClickRecord(fault) ==
    /\ mounted
    /\ ~isProcessing
    /\ streamRef # "null"
    /\ LET s == handleVoiceRecord(Cur, Render(Cur), fault)
           pending == \E t \in TimerIds : autoTimers[t] # NoTimer
       IN  Commit([s EXCEPT !.manualSince = @ \/ (s.started /\ pending)])

\* The user toggles auto-listening (either control).
ToggleAutoMode ==
    /\ mounted
    /\ autoMode' = ~autoMode
    /\ out' = NoOut
    \* history: switched off (and not on again) while a timeout is pending
    /\ offSince' = (autoMode /\ \E t \in TimerIds : autoTimers[t] # NoTimer)
    /\ UNCHANGED <<isRecording, isProcessing, recordingTime, streamRef,
                   mediaRecorderRef, audioChunksRef, recordingTimerRef,
                   autoListenTimeoutRef, audioContextRef, animationFrameRef,
                   recorders, autoTimers, initPc, hasConsumer, supported,
                   mounted, micLevel, appVars, sinceReplyEnd, manualSince>>

\* dataavailable of recorder k while it records (timeslice or requestData);
\* empty blobs are dropped by the handler.
RecorderData(k, size) ==
    /\ recorders[k].phase = "recording"
    /\ Len(audioChunksRef) < MaxChunks
    /\ Commit(ondataavailable(Cur, k, size))

\* The recorder hits a device fault: onerror runs, then the browser stops the
\* recorder by itself and queues its stop event.
RecorderFault(k) ==
    /\ recorders[k].phase = "recording"
    /\ Commit([Cur EXCEPT !.recorders[k].phase = "faulted"])

\* The task queued by stop(): a last dataavailable (size 0: no data), then
\* the stop event, whose handler runs processRecording.
RecorderStopEvent(k, size) ==
    /\ recorders[k].phase \in {"stopQueued", "faulted"}
    /\ size = 0 \/ Len(audioChunksRef) < MaxChunks
    /\ Commit(processRecording(ondataavailable(Cur, k, size), k))

\* The transcription request of recorder k settles.
TranscribeResponse(k, outcome) ==
    /\ recorders[k].phase = "transcribing"
    /\ Commit(processResponse(Cur, k, outcome))

\* One second passes: the live duration timers fire, the pending auto-listen
\* timeout comes one second closer.  A due timeout fires before the next second.
SecondPasses ==
    /\ \A t \in TimerIds : autoTimers[t].left # 0
    /\ \A j \in JobIds : jobs[j].stage # "delayDue"
    /\ LET s == durationTicks(Cur, {k \in RecorderIds : recorders[k].timer})
       IN  Commit([s EXCEPT !.autoTimers =
                                [t \in TimerIds |->
                                   IF s.autoTimers[t].left > 0
                                   THEN [s.autoTimers[t] EXCEPT !.left = @ - 1]
                                   ELSE s.autoTimers[t]],
                            !.jobs =
                                [j \in JobIds |->
                                   IF s.jobs[j].stage = "delay"
                                   THEN [s.jobs[j] EXCEPT !.stage = "delayDue"]
                                   ELSE s.jobs[j]],
                            !.sinceReplyEnd =
                                IF @ >= 0 /\ @ < AutoListenDelay THEN @ + 1 ELSE @])

\* The auto-listen timeout t fires: the callback of the render `cap`.
AutoListenFire(t, fault) ==
    /\ autoTimers[t].left = 0
    /\ LET cap == autoTimers[t].cap
           s0 == [Cur EXCEPT !.autoTimers[t] = NoTimer,
                             !.autoListenTimeoutRef = IF @ = t THEN 0 ELSE @,
                             \* history is kept for the pending timeout only
                             !.jobs = [j \in JobIds |-> [@[j] EXCEPT !.reply = FALSE]],
                             !.sinceReplyEnd = -1,
                             !.manualSince = FALSE,
                             !.offSince = FALSE]
       IN  IF cap.autoMode /\ ~cap.isRecording /\ ~cap.isProcessing
           THEN Commit(handleVoiceRecord(s0, cap, fault))
           ELSE Commit(s0)

\* close() with the rejection left unhandled.
closeAudioContextUncaught(s) ==
    CASE s.audioContextRef = "running" -> [s EXCEPT !.audioContextRef = "closed"]
      [] s.audioContextRef = "closed" -> [s EXCEPT !.out.raised = TRUE]
      [] OTHER -> s

\* audioContextRef.current.close().catch(...): close() of a context that is
\* already closed returns a rejected promise, which the catch handler logs.
closeAudioContext(s) ==
    CASE s.audioContextRef = "running" -> [s EXCEPT !.audioContextRef = "closed"]
      [] OTHER -> s

\* cleanup: the tracks of the stream are stopped (the ref keeps the closed
\* stream), the interval in recordingTimerRef is cleared, the audio context
\* is closed, the level frame is cancelled and the timeout in
\* autoListenTimeoutRef is cleared.  It reads refs only.
cleanup(s) ==
    LET t == s.recordingTimerRef
        a == s.autoListenTimeoutRef
        s1 == IF s.streamRef = "open" THEN [s EXCEPT !.streamRef = "closed"] ELSE s
        s2 == IF t # 0
              THEN [s1 EXCEPT !.recorders[t].timer = FALSE, !.recordingTimerRef = 0]
              ELSE s1
        s3 == [closeAudioContext(s2) EXCEPT !.animationFrameRef = FALSE]
    IN  IF a # 0
        THEN [s3 EXCEPT !.autoTimers[a] = NoTimer, !.autoListenTimeoutRef = 0]
        ELSE s3

\* The component unmounts: the effect's cleanup runs.  A recorder that is
\* recording loses its tracks: the browser stops it and queues its stop event.
\* Callbacks that are already registered or awaited still run afterwards.
Unmount ==
    /\ mounted
    /\ LET s == cleanup(Cur)
       IN  Commit([s EXCEPT !.mounted = FALSE,
                            !.recorders =
                                [k \in RecorderIds |->
                                   IF s.recorders[k].phase = "recording"
                                   THEN [s.recorders[k] EXCEPT !.phase = "stopQueued"]
                                   ELSE s.recorders[k]]])

\* ------------------------------------------------------------------------
\* App: the chat request and the speech pipeline (synthesizeAndPlayVoice,
\* playAudioFromBase64).
\* ------------------------------------------------------------------------

\* The promise of synthesizeAndPlayVoice settles.  played: the audio element
\* of this job fired its terminal event (ended or error).
speakSettles(s, j, result, played) ==
    [s EXCEPT !.jobs[j] = [stage |-> "settled", reply |-> FALSE, result |-> result],
              !.sinceReplyEnd = IF s.jobs[j].reply /\ played THEN 0 ELSE @]

\* sendMessage of the current render (the input holds some text).
SendText ==
    /\ ~isLoading
    /\ FreeJobs(Cur) # {}
    /\ Commit([Cur EXCEPT !.isLoading = TRUE,
                          !.jobs[Min(FreeJobs(Cur))] = [NoJob EXCEPT !.stage = "chat"]])

\* The chat request of job j settles; the finally block clears isLoading.
\* With a reply, setTimeout defers the speech (800 ms voice, 1-2 s text).
ChatResponse(j, ok) ==
    /\ jobs[j].stage = "chat"
    /\ Commit([Cur EXCEPT !.isLoading = FALSE,
                          !.jobs[j] = IF ok THEN [@ EXCEPT !.stage = "delay"]
                                      ELSE NoJob])

\* The deferred callback runs: synthesizeAndPlayVoice sends its request.
ReplyTimeout(j) ==
    /\ jobs[j].stage \in {"delay", "delayDue"}
    /\ Commit([Cur EXCEPT !.jobs[j].stage = "synth"])

\* The synthesis request settles.
\*   audio        ok, audio_data decodes, play() starts playback
\*   nonOk        response not ok                  -> return Promise.resolve()
\*   noAudio      ok without audio_data            -> return Promise.resolve()
\*   throw        fetch / json() throws            -> catch: Promise.resolve()
\*   undecodable  atob throws in the executor      -> reject(error)
\*   playRejected play() is rejected               -> reject(error)
\* The promise of playAudioFromBase64 is returned, not awaited, inside the try:
\* its rejection is the rejection of synthesizeAndPlayVoice.
synthesizeAndPlayVoice(s, j, outcome) ==
    CASE outcome = "audio" -> [s EXCEPT !.jobs[j].stage = "playing"]
      [] outcome \in {"undecodable", "playRejected"} ->
             speakSettles(s, j, "rejected", FALSE)
      [] OTHER -> speakSettles(s, j, "resolved", FALSE)

SynthResponse(j, outcome) ==
    /\ jobs[j].stage = "synth"
    /\ Commit(synthesizeAndPlayVoice(Cur, j, outcome))

\* The audio element of job j fires ended (resolve) or error (reject).
playAudioFromBase64(s, j, ev) ==
    speakSettles(s, j, IF ev = "ended" THEN "resolved" ELSE "rejected", TRUE)

PlaybackEvent(j, ev) ==
    /\ jobs[j].stage = "playing"
    /\ Commit(playAudioFromBase64(Cur, j, ev))

\* The reaction to the settled promise: the then-callback (which only logs),
\* or, for a rejection nobody handles, the unhandledrejection report.
SpeakThen(j) ==
    /\ jobs[j].stage = "settled"
    /\ Commit([Cur EXCEPT !.jobs[j] = NoJob])

\* The welcome message: initializeSession calls synthesizeAndPlayVoice of the
\* render in which sessionId was still null, which returns Promise.resolve().
WelcomeSpeak ==
    /\ welcomePending
    /\ Commit([Cur EXCEPT !.welcomePending = FALSE])

\* ------------------------------------------------------------------------
\* Specifications
\* ------------------------------------------------------------------------

\* A second passes while no recording has run longer than ClipSeconds: the
\* user of Spec stops recordings early.
ClipSecond ==
    /\ recordingTime < ClipSeconds
    /\ SecondPasses

\* The same for the short turns (TurnSeconds) of the hands-free conversation.
TurnSecond ==
    /\ recordingTime < TurnSeconds
    /\ SecondPasses

\* The hands-free user touches the controls only while no auto-listen
\* timeout is pending.
HandsFreeRecord ==
    /\ \A t \in TimerIds : autoTimers[t] = NoTimer
    /\ ClickRecord("none")

HandsFreeToggle ==
    /\ \A t \in TimerIds : autoTimers[t] = NoTimer
    /\ ToggleAutoMode

\* Spec: the capture controller and the auto-listen scheduler, every fault,
\* recordings of up to ClipSeconds.
Next ==
    \/ InitGranted
    \/ InitIdealRejected
    \/ \E reason \in Reasons : InitBasicRejected(reason)
    \/ \E fault \in StartFaults : ClickRecord(fault)
    \/ ToggleAutoMode
    \/ \E k \in RecorderIds, size \in ChunkSizes : RecorderData(k, size)
    \/ \E k \in RecorderIds : RecorderFault(k)
    \/ \E k \in RecorderIds, size \in ChunkSizes \cup {0} : RecorderStopEvent(k, size)
    \/ \E k \in RecorderIds, o \in TranscribeOutcomes : TranscribeResponse(k, o)
    \/ ClipSecond
    \/ \E t \in TimerIds, fault \in StartFaults : AutoListenFire(t, fault)

Spec == InitAlone /\ [][Next]_vars

\* SpecCap: the capture controller over full-length recordings (the 60 s cap),
\* without faults, every chunk of ChunkBytes bytes.
NextCap ==
    \/ InitGranted
    \/ ClickRecord("none")
    \/ ToggleAutoMode
    \/ \E k \in RecorderIds : RecorderData(k, ChunkBytes)
    \/ \E k \in RecorderIds, size \in {0, ChunkBytes} : RecorderStopEvent(k, size)
    \/ \E k \in RecorderIds, o \in TranscribeOutcomes : TranscribeResponse(k, o)
    \/ SecondPasses
    \/ \E t \in TimerIds : AutoListenFire(t, "none")

SpecCap == InitAlone /\ [][NextCap]_vars

\* The speech pipeline of App.
NextPipeline ==
    \/ \E j \in JobIds, ok \in BOOLEAN : ChatResponse(j, ok)
    \/ \E j \in JobIds : ReplyTimeout(j)
    \/ \E j \in JobIds, o \in SynthOutcomes : SynthResponse(j, o)
    \/ \E j \in JobIds, ev \in {"ended", "error"} : PlaybackEvent(j, ev)
    \/ \E j \in JobIds : SpeakThen(j)

\* SpecLoop: the hands-free conversation loop under App: record, transcribe,
\* chat, synthesize, play, auto-listen.
NextLoop ==
    \/ InitGranted
    \/ HandsFreeRecord
    \/ HandsFreeToggle
    \/ \E k \in RecorderIds : RecorderData(k, ChunkBytes)
    \/ \E k \in RecorderIds : RecorderStopEvent(k, 0)
    \/ \E k \in RecorderIds, o \in TranscribeOutcomes : TranscribeResponse(k, o)
    \/ TurnSecond
    \/ \E t \in TimerIds : AutoListenFire(t, "none")
    \/ NextPipeline

SpecLoop == Init /\ [][NextLoop]_vars

\* SpecSpeech: everything that makes App speak: typed messages, voice
\* messages from push-to-talk recordings, the welcome message.
NextSpeech ==
    \/ InitGranted
    \/ ClickRecord("none")
    \/ \E k \in RecorderIds : RecorderData(k, ChunkBytes)
    \/ \E k \in RecorderIds : RecorderStopEvent(k, 0)
    \/ \E k \in RecorderIds, o \in TranscribeOutcomes : TranscribeResponse(k, o)
    \/ SendText
    \/ WelcomeSpeak
    \/ NextPipeline

SpecSpeech == Init /\ [][NextSpeech]_vars

\* SpecTeardown: the capture controller and the scheduler with the component
\* unmounting at any moment.
NextTeardown ==
    \/ InitGranted
    \/ InitIdealRejected
    \/ \E reason \in Reasons : InitBasicRejected(reason)
    \/ ClickRecord("none")
    \/ ToggleAutoMode
    \/ \E k \in RecorderIds : RecorderData(k, ChunkBytes)
    \/ \E k \in RecorderIds : RecorderStopEvent(k, 0)
    \/ \E k \in RecorderIds, o \in TranscribeOutcomes : TranscribeResponse(k, o)
    \/ ClipSecond
    \/ \E t \in TimerIds, fault \in StartFaults : AutoListenFire(t, fault)
    \/ Unmount
    \/ InitGrantedNoAnalyser

SpecTeardown == InitAlone /\ [][NextTeardown]_vars

\* SpecUpload: push-to-talk recordings of every payload size under App, in
\* every browser of Browsers: what is uploaded and what is handed over.  The
\* chat request of a hand-over fails here; what App does with a reply is the
\* subject of SpecLoop and SpecSpeech.
InitBrowsers ==
    /\ Mounted(TRUE)
    /\ supported \in Browsers
    /\ micLevel = SpeechLevel

NextUpload ==
    \/ InitGranted
    \/ ClickRecord("none")
    \/ \E k \in RecorderIds, size \in ChunkSizes : RecorderData(k, size)
    \/ \E k \in RecorderIds, size \in ChunkSizes \cup {0} : RecorderStopEvent(k, size)
    \/ \E k \in RecorderIds, o \in TranscribeOutcomes : TranscribeResponse(k, o)
    \/ \E j \in JobIds : ChatResponse(j, FALSE)

SpecUpload == InitBrowsers /\ [][NextUpload]_vars

\* SpecNegotiate: recordings in every runtime, a runtime being the set of
\* probed types its isTypeSupported accepts.
Runtimes == SUBSET {formats[i] : i \in DOMAIN formats}

InitRuntimes ==
    /\ Mounted(TRUE)
    /\ supported \in Runtimes
    /\ micLevel = SpeechLevel

NextNegotiate ==
    \/ InitGranted
    \/ ClickRecord("none")
    \/ \E k \in RecorderIds : RecorderStopEvent(k, 0)

SpecNegotiate == InitRuntimes /\ [][NextNegotiate]_vars

\* SpecLevel: recordings at every reading of the analyser.
Levels == 0..MaxRawLevel

InitLevels ==
    /\ Mounted(TRUE)
    /\ supported = Chromium
    /\ micLevel \in Levels

NextLevel ==
    \/ InitGranted
    \/ ClickRecord("none")
    \/ \E k \in RecorderIds : RecorderStopEvent(k, 0)

SpecLevel == InitLevels /\ [][NextLevel]_vars

\* SpecMonitor: the level monitor over recordings that the user stops, that
\* run into the 60 s cap or that the recorder ends by itself.
NextMonitor ==
    \/ InitGranted
    \/ InitGrantedNoAnalyser
    \/ ClickRecord("none")
    \/ \E k \in RecorderIds : RecorderFault(k)
    \/ \E k \in RecorderIds : RecorderStopEvent(k, 0)
    \/ SecondPasses

SpecMonitor == InitAlone /\ [][NextMonitor]_vars

\* SpecListening: push-to-talk under App with starts that fail: App's
\* isListening next to VoiceControls' isRecording.
NextListening ==
    \/ InitGranted
    \/ \E fault \in StartFaults : ClickRecord(fault)
    \/ \E k \in RecorderIds : RecorderData(k, ChunkBytes)
    \/ \E k \in RecorderIds : RecorderStopEvent(k, 0)
    \/ \E k \in RecorderIds, o \in TranscribeOutcomes : TranscribeResponse(k, o)
    \/ \E j \in JobIds : ChatResponse(j, FALSE)
    \/ ClipSecond

SpecListening == Init /\ [][NextListening]_vars

\* ------------------------------------------------------------------------
\* Properties
\* ------------------------------------------------------------------------

\* Step predicates.
\* An auto-listen timeout fires and its callback starts a recorder.
AutoStart ==
    \E t \in TimerIds :
        /\ autoTimers[t].left = 0
        /\ autoTimers'[t] = NoTimer
        /\ \E k \in RecorderIds :
              /\ recorders[k].phase # "recording"
              /\ recorders'[k].phase = "recording"

\* processRecording of some recorder runs to its end (a completion).
Completion ==
    \E k \in RecorderIds :
        /\ recorders[k].phase \in {"stopQueued", "faulted", "transcribing"}
        /\ recorders'[k].phase = "inactive"

\* A timeout with the full delay ahead is pending after the step.
FreshTimeout ==
    \E t \in TimerIds : autoTimers'[t].left = AutoListenDelay

Recording == {k \in RecorderIds : recorders[k].phase = "recording"}

\* C1: at most one recording is active at any time: no MediaRecorder is
\* started while another one is still recording.
OneRecordingAtATime ==
    Cardinality(Recording) <= 1

\* C2: an auto-listen timeout starts a recording only after the playback of
\* the reply to the utterance that scheduled it has reached its terminal
\* event: no such reply is still being fetched, synthesized or played.
AutoListenAfterPlayback ==
    [][AutoStart => ~(\E j \in JobIds : jobs[j].reply)]_vars

\* C3: a completion that occurs while autoMode is false schedules no
\* automatic start: it leaves the pending timeouts as they are.
NoScheduleWhenDisabled ==
    [][(Completion /\ ~autoMode) => autoTimers' = autoTimers]_vars

\* C4: once the user has started a recording by hand after a timeout was
\* scheduled, that timeout starts no recording.
ManualStartCancelsAutoListen ==
    [][AutoStart => ~manualSince]_vars

\* C5: the automatic start that follows the playback of a reply comes no
\* earlier than AutoListenDelay seconds after that playback completed.
AutoListenDelayAfterPlayback ==
    [][(AutoStart /\ sinceReplyEnd >= 0) => sinceReplyEnd >= AutoListenDelay]_vars

\* C6: the promise of synthesizeAndPlayVoice never rejects, whatever the
\* synthesis request or the playback does.
SpeakNeverRejects ==
    \A j \in JobIds : jobs[j].result # "rejected"

\* C7: at most one reply is being played at any moment, whichever of
\* sendMessage, sendVoiceMessage and the welcome message started it.
OnePlaybackAtATime ==
    Cardinality({j \in JobIds : jobs[j].stage = "playing"}) <= 1

\* C8: with auto-listening enabled, every completion hands the scheduler its
\* signal: a timeout with the full delay is pending right after it.
CompletionAlwaysSchedules ==
    [][(Completion /\ autoMode) => FreshTimeout]_vars

\* C9: after every stop trigger the controller returns to idle: when no
\* recorder is recording, stopping or being transcribed any more, isRecording
\* and isProcessing are both false.
ReturnsToIdle ==
    (\A k \in RecorderIds : recorders[k].phase = "inactive")
        => (~isRecording /\ ~isProcessing)

\* C10: a tick of the duration timer taken with the counter at
\* MaxRecordingSeconds forces the stop: after it no recorder is recording and
\* no duration timer is live.
CapForcesStop ==
    [][(recordingTime >= MaxRecordingSeconds
          /\ (\E k \in RecorderIds : recorders[k].timer)
          /\ SecondPasses)
        => \A k \in RecorderIds :
              recorders'[k].phase # "recording" /\ ~recorders'[k].timer]_vars

\* C11: in every reachable state recordingTime is between 0 and
\* MaxRecordingSeconds.
RecordingTimeInRange ==
    recordingTime \in 0..MaxRecordingSeconds

\* The counter stands at the cap and the capped recorder has been stopped.
RecordingTimeAtCap ==
    /\ recordingTime = MaxRecordingSeconds
    /\ isRecording
    /\ mediaRecorderRef # 0
    /\ recorders[mediaRecorderRef].phase = "stopQueued"

\* The stop event of a recorder has just been handled with an empty or
\* near-silent capture.
SilentCapture ==
    out.by # 0 /\ out.bytes < MinPayloadBytes

\* C12: a stopped recording without chunks, or with a payload below
\* MinPayloadBytes, is not uploaded to the transcription service.
SilenceNotTranscribed ==
    SilentCapture =>
        (out.upload = "none" /\ recorders[out.by].phase # "transcribing")

\* A near-silent capture (some bytes, fewer than MinPayloadBytes) was handled
\* without an upload.
NearSilentSkipped ==
    SilentCapture /\ out.bytes > 0 /\ out.upload = "none"

\* C13: for an empty or near-silent capture onVoiceMessage is not invoked.
SilenceNotDelivered ==
    SilentCapture => out.delivered = "none"

\* The container of a media type (the type without its codecs parameter).
container(type) ==
    CASE type = "audio/webm;codecs=opus" -> "audio/webm"
      [] type = "audio/ogg;codecs=opus" -> "audio/ogg"
      [] OTHER -> type

\* C14: the type of the uploaded payload is the type negotiated when the
\* recording started (compared by container).
UploadTaggedAsNegotiated ==
    out.upload # "none" =>
        container(out.upload) = container(recorders[out.by].mimeType)

\* C15: when the transcription request fails, processRecording completes
\* (nothing propagates) and hands over the trouble-hearing sentence, which is
\* not the sentence of an empty transcription.
FailureDeliversOwnFallback ==
    out.response \in {"httpError", "networkError"} =>
        /\ out.delivered = TroubleSentence
        /\ out.delivered # NoSpeechSentence
        /\ ~isProcessing

\* A failed request has just been answered with the fallback.
FailureAnswered ==
    out.response = "networkError" /\ out.delivered = TroubleSentence

\* C16: an empty or whitespace-only transcription hands over the no-speech
\* fallback sentence.
EmptyDeliversNoSpeech ==
    out.response = "empty" =>
        out.delivered =
            "I'm listening but couldn't hear you clearly. Could you please repeat that?"

\* An empty transcription has just been answered.
EmptyAnswered ==
    out.response = "empty" /\ out.delivered = NoSpeechSentence

\* C17: after teardown no duration timer, no auto-listen timeout and no open
\* microphone stream exists, and none comes into being later.
NothingOutlivesTeardown ==
    ~mounted =>
        /\ \A k \in RecorderIds : ~recorders[k].timer
        /\ \A t \in TimerIds : autoTimers[t] = NoTimer
        /\ streamRef # "open"

\* C18: no recorder is constructed on the stream after cleanup closed it.
ClosedStreamNeverUsed ==
    out.usedStream # "closed"

\* C19: once the stop event that follows a recorder error has been handled,
\* the duration timer of that recording is stopped and isRecording is false.
FaultForcesStop ==
    (out.by # 0 /\ out.afterFault) =>
        (~recorders[out.by].timer /\ ~isRecording)

\* C20: a timeout that was pending when autoMode was switched off starts no
\* recording unless autoMode has been switched on again.
ToggleOffCancelsAutoListen ==
    [][AutoStart => ~offSince]_vars

\* C21: an auto-listen timeout starts a recording only if, when it fires,
\* nothing is being recorded or processed and no reply is being played.
FireChecksCurrentState ==
    [][AutoStart => /\ ~isRecording
                    /\ ~isProcessing
                    /\ \A j \in JobIds : jobs[j].stage # "playing"]_vars

Outstanding == {t \in TimerIds : autoTimers[t] # NoTimer}

\* C22: at most one auto-listen timeout is pending at any time.
AtMostOneTimeout ==
    Cardinality(Outstanding) <= 1

\* C22 witness: a completion scheduled a timeout while another was pending,
\* and one timeout is pending afterwards.
TimeoutReplaced ==
    out.replaced /\ Cardinality(Outstanding) = 1

\* The chunks of `chunks` that recorder k delivered, in their order.
RECURSIVE Own(_, _)
Own(chunks, k) ==
    IF chunks = <<>> THEN <<>>
    ELSE IF Head(chunks).by = k THEN <<Head(chunks)>> \o Own(Tail(chunks), k)
    ELSE Own(Tail(chunks), k)

IsPrefix(a, b) == Len(a) <= Len(b) /\ SubSeq(b, 1, Len(a)) = a

\* Recorder k has chunks to hand over: its stop event has not been handled.
Live(k) == recorders[k].phase \in {"recording", "stopQueued", "faulted"}

\* processRecording of recorder k runs to its end in this step.
CompletionOf(k) ==
    /\ recorders[k].phase \in {"stopQueued", "faulted", "transcribing"}
    /\ recorders'[k].phase = "inactive"

\* C23: the payload assembled at the stop event of a recording is the chunks
\* that recording delivered, each once, in arrival order: until then every
\* step keeps the chunks it has delivered so far, in order, and the payload
\* holds them and nothing else.
PayloadIsChunksInOrder ==
    [][\A k \in RecorderIds :
          Live(k) =>
             IF out'.by = k
             THEN /\ out'.payload = Own(out'.payload, k)
                  /\ IsPrefix(Own(audioChunksRef, k), out'.payload)
             ELSE IsPrefix(Own(audioChunksRef, k), Own(audioChunksRef', k))]_vars

\* C29: recordings that overlap do not share chunks: a payload holds chunks of
\* its own recorder only, and the completion of one recording leaves the
\* chunks that another, still recording, has collected.
SessionsKeepOwnChunks ==
    [][/\ \A i \in DOMAIN out'.payload : out'.payload[i].by = out'.by
       /\ \A k, j \in RecorderIds :
             (k # j /\ CompletionOf(k) /\ recorders[j].phase = "recording")
                => Own(audioChunksRef', j) = Own(audioChunksRef, j)]_vars

\* C24: every recording is encoded in the first type of the order wav,
\* webm/opus, webm, mp3, ogg/opus, ogg that the runtime supports, the same for
\* every recording of the runtime; a runtime with mp3 and ogg only gives mp3.
FirstSupportedFormat ==
    \A k \in Recording :
        LET m == recorders[k].mimeType
        IN  /\ (\E i \in DOMAIN formats : formats[i] \in supported) =>
                   \E i \in DOMAIN formats :
                       /\ m = formats[i]
                       /\ m \in supported
                       /\ \A j \in 1..(i - 1) : formats[j] \notin supported
            /\ supported = {"audio/mp3", "audio/ogg"} => m = "audio/mp3"
            /\ \A k2 \in Recording : recorders[k2].mimeType = m

\* C24 witness: a recording in the runtime that supports mp3 and ogg only.
Mp3BeforeOgg ==
    /\ supported = {"audio/mp3", "audio/ogg"}
    /\ \E k \in Recording : recorders[k].mimeType = "audio/mp3"

\* C27: in a runtime that supports none of the probed types no recording is
\* started.
NoFormatNoRecording ==
    (\A i \in DOMAIN formats : formats[i] \notin supported) => Recording = {}

\* C25: the device is requested with the ideal constraints first; a rejection
\* of that request shows no error and is followed by one request with
\* { audio: true }; only the rejection of this one ends the opening, with
\* the reason shown and no stream held.
OpenRetriesOnce ==
    [][/\ initPc' # initPc =>
             \/ initPc = "ideal" /\ initPc' = "done" /\ streamRef' = "open"
                                 /\ out'.error = "none"
             \/ initPc = "ideal" /\ initPc' = "basic" /\ streamRef' = "null"
                                 /\ out'.error = "none"
             \/ initPc = "basic" /\ initPc' = "done" /\ streamRef' = "open"
                                 /\ out'.error = "none"
             \/ initPc = "basic" /\ initPc' = "done" /\ streamRef' = "null"
                                 /\ out'.error \in Reasons
       /\ out'.error # "none" => initPc = "basic" /\ streamRef' = "null"]_vars

\* C25 witness: both requests were rejected: the reason is shown and no
\* stream is held.
OpenFailed ==
    out.error \in Reasons /\ initPc = "done" /\ streamRef = "null"

\* C26: after a step that armed a recording (user click or auto-listen
\* timeout) the device is open, opened by that step if it was not.
ArmOpensDevice ==
    out.armed => streamRef = "open"

\* C28: autoMode is false initially and changes in no step but the user's
\* toggle.
AutoModeOnlyToggled ==
    /\ ~autoMode
    /\ [][autoMode' # autoMode => ToggleAutoMode]_vars

\* C28 witness: a transcription has settled and its reply is on its way to
\* the loudspeaker with autoMode still on.
AutoModeKept ==
    /\ autoMode
    /\ out.response # "none"
    /\ \E j \in JobIds : jobs[j].stage = "chat"

\* C30: a recording sends at most one transcription request.
OneRequestPerRecording ==
    /\ \A k \in RecorderIds : recorders[k].requests <= 1
    /\ out.requests <= 1

\* C30 witness: the request of a recording failed and the recording
\* completed with that one request.
FailedRequestNotRepeated ==
    /\ out.response \in {"httpError", "networkError"}
    /\ out.requests = 1
    /\ \A k \in RecorderIds : recorders[k].phase # "transcribing"

\* C33: App's isListening equals VoiceControls' isRecording after every step.
ListeningMirrorsRecording ==
    isListening = isRecording

\* C34: a recognized text handed to handleVoiceMessage is sent to the chat
\* backend.
RecognizedTextIsSent ==
    out.delivered = RecognizedText => out.chat = "sent"

\* C31: the step in which the transcription request of a recording settles
\* calls onVoiceMessage exactly once, with the recognized text or a fallback
\* sentence, and no step calls it twice.
ExactlyOneDelivery ==
    [][/\ \A k \in RecorderIds :
             (recorders[k].phase = "transcribing"
                 /\ recorders'[k].phase # "transcribing")
             => /\ out'.deliveries = 1
                /\ out'.delivered \in {RecognizedText, NoSpeechSentence,
                                        TroubleSentence}
       /\ out'.deliveries <= 1]_vars

\* C31 witness: a request settled with a text, which was handed over once.
TextDeliveredOnce ==
    /\ out.response = "text"
    /\ out.deliveries = 1
    /\ out.delivered = RecognizedText

\* C32: while the transcription request of a recording is in flight, the
\* duration timer that recording started is no longer running.
TimerStoppedBeforeTranscription ==
    \A k \in RecorderIds :
        recorders[k].phase = "transcribing" => ~recorders[k].timer

\* C35: cleanup is idempotent: run on the state a cleanup has left (or twice
\* in a row from any state) it raises no error and changes nothing.
CleanupIdempotent ==
    LET once == cleanup(Cur)
        twice == cleanup(once)
    IN  /\ twice = once
        /\ ~once.out.raised
        /\ ~out.raised

\* C35 witness: cleanup has run: stream and audio context are closed.
AlreadyClosed ==
    ~mounted /\ streamRef = "closed" /\ audioContextRef = "closed"

\* C36: a level frame is pending, and a level sample is taken, only while a
\* recorder is recording.
LevelLoopOnlyWhileRecording ==
    /\ animationFrameRef => Recording # {}
    /\ out.sampled => Recording # {}

\* C36 witness: the user has stopped the one recording, whose start took a
\* level sample: no frame is pending.
StoppedWithoutFrame ==
    /\ audioContextRef = "running"
    /\ ~isRecording
    /\ Recording = {}
    /\ \E k \in RecorderIds : recorders[k].phase = "stopQueued"
    /\ ~animationFrameRef

\* C37: the label displayed is the step function of the normalized level a
\* alone: a > 0.6 excellent, else a > 0.3 good, else a > 0.1 fair, else poor
\* (a in hundredths).
QualityIsStepFunction ==
    out.sampled =>
        /\ out.level \in 0..100
        /\ out.quality = (CASE out.level > 60 -> "excellent"
                             [] out.level <= 60 /\ out.level > 30 -> "good"
                             [] out.level <= 30 /\ out.level > 10 -> "fair"
                             [] OTHER -> "poor")

\* C37 witness: a sample exactly at the threshold 0.6 is labelled good.
ThresholdIsGood ==
    out.sampled /\ out.level = 60 /\ out.quality = "good"

====
